---- MODULE Spec2Model ----
EXTENDS Integers, Sequences, FiniteSets, TLC

(***************************************************************************)
(* StudyFlow: the course record store (services/api/courseService.js) and  *)
(* the Grades page (components/pages/Grades.jsx).                          *)
(***************************************************************************)

VARIABLES
  seed,      \* coursesData: the imported seed array, one in-memory object
  storage,   \* localStorage[STORAGE_KEY]: <<>> (no value) or <<json text>>
  pending,   \* calls suspended in `await delay()`, in timer order
  last,      \* history: the call that completed last, what it read and returned
  seed0,     \* history: the seed as bundled
  fresh,     \* history: <<record>> returned by a create not yet followed by a mutation
  maxCreated,\* history: largest Id returned in the current run of creates (0: none)
  assigned,  \* history: Ids held by some record since the start of a create/delete run
  ran,       \* history: the kinds of change made so far (create, update, delete, clear)
  serial,    \* history: the collection the completed calls give when run one by one
  overlap,   \* history: a call was issued while another was still suspended
  ncalls,    \* number of calls made so far
  courses,        \* Grades state: courses
  assignments,    \* Grades state: assignments
  loading,        \* Grades state: loading
  error,          \* Grades state: error, <<>> for null
  selectedCourse, \* Grades state: selectedCourse, NoSelection for null
  courseRead,     \* the promise of courseService.getAll() of the current loadData
  assignRead,     \* the promise of assignmentService.getAll() of the current loadData
  atStart,        \* history: the state loadData saw when it was invoked
  ended,          \* history: how the last loadData ended, until the next event
  grades          \* what the last render computed, <<>> before the first

storeVars == <<seed, storage, pending, last, seed0, fresh, maxCreated, assigned,
               ran, serial, overlap, ncalls>>

gradeVars == <<courses, assignments, loading, error, selectedCourse, courseRead,
               assignRead, atStart, ended, grades>>

vars == <<storeVars, gradeVars>>

----------------------------------------------------------------------------
(* Bounds *)

MaxCalls == 2       \* calls made in one run
MaxCats == 2        \* grade categories of the selected course
MaxAsg == 3         \* assignments loaded

----------------------------------------------------------------------------
(* Values *)

UNDEF == "undefined"        \* the value of a property that is undefined
NaN == -1                   \* parseInt of a non-numeric string; never === anything
NoSelection == 0            \* selectedCourse of null
NULL == -1                  \* a grade of null

Fields == {"Id", "code", "gradeCategories"}

Homework == [name |-> "Homework", weight |-> 40]

Course1 == [Id |-> 1, code |-> "a", gradeCategories |-> <<Homework>>]
Course2 == [Id |-> 2, code |-> "b"]

NoRecord == [f \in {} |-> 0]

\* arguments of create
CourseInputs ==
  { [code |-> "a"],
    [Id |-> 1, code |-> UNDEF, gradeCategories |-> <<Homework>>] }

\* second argument of update
PartialData ==
  { [code |-> "c", gradeCategories |-> <<>>],
    [Id |-> 2, code |-> UNDEF] }

Digits == <<"0", "1", "2", "3", "4", "5", "6", "7", "8", "9">>

\* id arguments: decimal strings and a non-numeric string
IdArgs == {"1", "2", "3", "4", "x"}

----------------------------------------------------------------------------
(* Helpers of the language runtime *)

\* parseInt(id)
ParseInt(s) ==
  IF \E n \in 0..9 : Digits[n + 1] = s
    THEN CHOOSE n \in 0..9 : Digits[n + 1] = s
    ELSE NaN

\* a === b on numbers
StrictEq(a, b) == a # NaN /\ b # NaN /\ a = b

\* { ...a, ...b }
Spread(a, b) ==
  [f \in (DOMAIN a) \cup (DOMAIN b) |-> IF f \in DOMAIN b THEN b[f] ELSE a[f]]

\* JSON.stringify of one object: properties whose value is undefined are left out
StringifyRecord(r) ==
  LET keep == { f \in DOMAIN r : ~(f = "code" /\ r[f] = UNDEF) }
  IN  [f \in keep |-> r[f]]

\* JSON.stringify(courses)
Stringify(cs) == [i \in 1..Len(cs) |-> StringifyRecord(cs[i])]

\* JSON.parse(stored): a new array of new objects
Parse(text) == text

\* a fault: the number of records taken for the largest Id
LengthForMaxId(cs, max) == Len(cs)

\* Math.max(max, c.Id) folded over the array, from 0
RECURSIVE MaxIdFrom(_, _)
MaxIdFrom(cs, max) ==
  IF cs = <<>> THEN max
  ELSE MaxIdFrom(Tail(cs), IF Head(cs).Id > max THEN Head(cs).Id ELSE max)

\* courses.findIndex(c => c.Id === n): 0 stands for -1
FindIndex(cs, n) ==
  IF \E i \in 1..Len(cs) : StrictEq(cs[i].Id, n)
    THEN CHOOSE i \in 1..Len(cs) :
           /\ StrictEq(cs[i].Id, n)
           /\ \A j \in 1..(i - 1) : ~StrictEq(cs[j].Id, n)
    ELSE 0

----------------------------------------------------------------------------
(* courseService *)

SeedInUse == storage = <<>>

\* getStoredCourses()
GetStoredCourses == IF storage = <<>> THEN seed ELSE Parse(storage[1])

\* a fault: the array read before the delay, when the call was made
CoursesReadAtIssue(call) == call.snap

\* the array a resumed call works on: read after the delay
CoursesRead(call) == GetStoredCourses

\* a fault: the input spread last, over the assigned Id and the default
NewCourseInputLast(cs, course) ==
  Spread([Id |-> MaxIdFrom(cs, 0) + 1, gradeCategories |-> <<>>], course)

\* newCourse of create; course.gradeCategories, when present, is an array, which
\* `||` keeps
NewCourse(cs, course) ==
  Spread(course,
         [Id |-> MaxIdFrom(cs, 0) + 1,
          gradeCategories |->
            IF "gradeCategories" \in DOMAIN course
              THEN course.gradeCategories ELSE <<>>])

\* courses after courses.push(newCourse)
Pushed(cs, course) == Append(cs, NewCourse(cs, course))

\* a fault: the stored record spread last, over the data
MergedStoredLast(cs, index, data) == [cs EXCEPT ![index] = Spread(data, cs[index])]

\* courses after courses[index] = {...courses[index], ...data}
Merged(cs, index, data) == [cs EXCEPT ![index] = Spread(cs[index], data)]

\* courses.filter(c => c.Id !== n)
Filtered(cs, n) == SelectSeq(cs, LAMBDA c : ~StrictEq(c.Id, n))

\* what a call leaves as the stored collection, given the array it read
Result(call, cs) ==
  CASE call.op = "create" -> Pushed(cs, call.data)
    [] call.op = "update" ->
         IF FindIndex(cs, ParseInt(call.id)) # 0
           THEN Merged(cs, FindIndex(cs, ParseInt(call.id)), call.data)
           ELSE cs
    [] call.op = "delete" -> Filtered(cs, ParseInt(call.id))
    [] OTHER -> cs

Ids(cs) == { cs[i].Id : i \in 1..Len(cs) }

Done(call, cs, ret, saved) ==
  [op |-> call.op, id |-> call.id, data |-> call.data, snap |-> call.snap,
   pre |-> cs, ret |-> ret, wrote |-> saved,
   earlier |-> maxCreated, before |-> assigned,
   cd |-> ran \subseteq {"create", "delete"}, co |-> ran \subseteq {"create"}]

\* whether the call reaches saveCourses, given the array it read
Saves(call, cs) ==
  \/ call.op \in {"create", "delete"}
  \/ call.op = "update" /\ FindIndex(cs, ParseInt(call.id)) # 0

\* the history variables every call keeps up
History(call, cs) ==
  /\ serial' = IF Saves(call, serial)
                 THEN Parse(Stringify(Result(call, serial))) ELSE serial
  /\ seed0' = seed0

GetAll(call) ==
  LET cs == CoursesRead(call) IN
  /\ call.op = "getAll"
  /\ last' = Done(call, cs, cs, FALSE)
  /\ UNCHANGED <<seed, storage, fresh, maxCreated, assigned, ran>>
  /\ History(call, cs)

GetById(call) ==
  LET cs == CoursesRead(call)
      index == FindIndex(cs, ParseInt(call.id))
  IN
  /\ call.op = "getById"
  /\ last' = Done(call, cs, IF index # 0 THEN <<cs[index]>> ELSE <<>>, FALSE)
  /\ UNCHANGED <<seed, storage, fresh, maxCreated, assigned, ran>>
  /\ History(call, cs)

Create(call) ==
  LET cs == CoursesRead(call)
      new == NewCourse(cs, call.data)
      pushed == Pushed(cs, call.data)
  IN
  /\ call.op = "create"
  /\ seed' = IF SeedInUse THEN pushed ELSE seed
  /\ storage' = <<Stringify(pushed)>>
  /\ last' = Done(call, cs, <<new>>, TRUE)
  /\ fresh' = <<[input |-> call.data, id |-> new.Id]>>
  /\ maxCreated' = new.Id
  /\ assigned' = assigned \cup {new.Id}
  /\ ran' = ran \cup {"create"}
  /\ History(call, cs)

Update(call) ==
  LET cs == CoursesRead(call)
      index == FindIndex(cs, ParseInt(call.id))
      merged == Merged(cs, index, call.data)
  IN
  /\ call.op = "update"
  /\ IF index # 0
       THEN /\ seed' = IF SeedInUse THEN merged ELSE seed
            /\ storage' = <<Stringify(merged)>>
            /\ last' = Done(call, cs, <<merged[index]>>, TRUE)
            /\ fresh' = <<>>
            /\ maxCreated' = 0
            /\ ran' = ran \cup {"update"}
       ELSE /\ last' = Done(call, cs, <<>>, FALSE)
            /\ UNCHANGED <<seed, storage, fresh, maxCreated, ran>>
  /\ assigned' = assigned
  /\ History(call, cs)

Delete(call) ==
  LET cs == CoursesRead(call)
      filtered == Filtered(cs, ParseInt(call.id))
  IN
  /\ call.op = "delete"
  /\ seed' = seed
  /\ storage' = <<Stringify(filtered)>>
  /\ last' = Done(call, cs, <<TRUE>>, TRUE)
  /\ fresh' = <<>>
  /\ maxCreated' = 0
  /\ ran' = ran \cup {"delete"}
  /\ assigned' = assigned
  /\ History(call, cs)

\* the body of a call, from the end of its delay to its return
Body(call) ==
  \/ GetAll(call)
  \/ GetById(call)
  \/ Create(call)
  \/ Update(call)
  \/ Delete(call)

Calls ==
  { [op |-> "getAll", id |-> "", data |-> NoRecord, snap |-> <<>>] }
  \cup { [op |-> "getById", id |-> i, data |-> NoRecord, snap |-> <<>>] : i \in IdArgs }
  \cup { [op |-> "create", id |-> "", data |-> c, snap |-> <<>>] : c \in CourseInputs }
  \cup { [op |-> "update", id |-> i, data |-> d, snap |-> <<>>] : i \in IdArgs, d \in PartialData }
  \cup { [op |-> "delete", id |-> i, data |-> NoRecord, snap |-> <<>>] : i \in IdArgs }

\* a call is made and suspends in `await delay()`; snap records, for the
\* properties, the collection stored at that moment
Issue(call) ==
  /\ ncalls < MaxCalls
  /\ ncalls' = ncalls + 1
  /\ pending' = Append(pending, [call EXCEPT !.snap = GetStoredCourses])
  /\ overlap' = (overlap \/ pending # <<>>)
  /\ UNCHANGED <<seed, storage, last, seed0, fresh, maxCreated, assigned, ran, serial>>
  /\ UNCHANGED gradeVars

\* the oldest timer fires and its call runs to its return
Resume ==
  /\ pending # <<>>
  /\ Body(Head(pending))
  /\ pending' = Tail(pending)
  /\ UNCHANGED <<overlap, ncalls>>
  /\ UNCHANGED gradeVars

\* the storage slot is cleared from outside the service
ClearStorage ==
  /\ storage # <<>>
  /\ storage' = <<>>
  /\ last' = [op |-> "clear"]
  /\ fresh' = <<>>
  /\ maxCreated' = 0
  /\ ran' = ran \cup {"clear"}
  /\ serial' = seed
  /\ UNCHANGED <<seed, pending, seed0, assigned, overlap, ncalls>>
  /\ UNCHANGED gradeVars

Seeds == { <<Course1>>, <<Course1, Course2>> }

StoredAtStart == { <<>>, <<Course2, Course1>> }

InitStore ==
  /\ seed \in Seeds
  /\ seed0 = seed
  /\ storage \in {<<>>} \cup { <<Stringify(cs)>> : cs \in StoredAtStart }
  /\ pending = <<>>
  /\ last = [op |-> "none"]
  /\ fresh = <<>>
  /\ maxCreated = 0
  /\ assigned = Ids(GetStoredCourses)
  /\ ran = {}
  /\ serial = GetStoredCourses
  /\ overlap = FALSE
  /\ ncalls = 0

----------------------------------------------------------------------------
(* Grade aggregation.  Numbers with one decimal place are held in tenths. *)

RECURSIVE SumGrades(_)
SumGrades(as) == IF as = <<>> THEN 0 ELSE Head(as).grade + SumGrades(Tail(as))

\* Math.round(p / q) for p >= 0, q > 0
Round(p, q) == (2 * p + q) \div (2 * q)

\* courses.find(c => c.Id === selectedCourse): <<>> for undefined
CurrentCourse(cs, sel) ==
  IF \E i \in 1..Len(cs) : cs[i].Id = sel
    THEN <<cs[CHOOSE i \in 1..Len(cs) :
                /\ cs[i].Id = sel
                /\ \A j \in 1..(i - 1) : cs[j].Id # sel]>>
    ELSE <<>>

\* assignments.filter(a => a.courseId === selectedCourse && a.completed && a.grade !== null)
CourseAssignments(as, sel) ==
  SelectSeq(as, LAMBDA a : a.courseId = sel /\ a.completed /\ a.grade # NULL)

\* a fault: the weighted score taken from the rounded average
WeightedScoreOfRounded(sum, n, weight) == Round(Round(10 * sum, n) * weight, 100)

\* <<sum, n, weight>> for which ((sum / n) * weight / 100) * 10 is k + 0.5 in exact
\* arithmetic and the doubles of lines 86, 87 and 92 give a number just below it,
\* so that Math.round gives k: every such case with whole grades 0..100, a whole
\* weight 0..100 and n <= 8.  With these n no double comes out above a tie or on
\* the other side of a whole number of tenths.
BelowTie ==
  { <<49, 3, 15>>, <<55, 3, 27>>, <<193, 3, 15>>, <<205, 3, 51>>, <<205, 3, 57>>,
    <<205, 3, 99>>, <<235, 3, 51>>, <<49, 6, 30>>, <<55, 6, 54>>, <<98, 6, 15>>,
    <<110, 6, 27>>, <<193, 6, 30>>, <<386, 6, 15>>, <<395, 6, 30>>, <<401, 6, 30>>,
    <<407, 6, 30>>, <<410, 6, 51>>, <<410, 6, 57>>, <<410, 6, 99>>, <<425, 6, 54>>,
    <<455, 6, 54>>, <<470, 6, 51>>, <<75, 7, 21>>, <<75, 7, 77>>, <<75, 7, 91>>,
    <<115, 7, 21>>, <<115, 7, 49>>, <<115, 7, 77>>, <<115, 7, 91>>, <<185, 7, 77>>,
    <<265, 7, 49>>, <<265, 7, 77>>, <<265, 7, 91>>, <<335, 7, 21>>, <<335, 7, 77>>,
    <<495, 7, 7>>, <<495, 7, 21>>, <<495, 7, 77>>, <<565, 7, 77>>, <<565, 7, 91>>,
    <<635, 7, 21>> }

\* weightedScore of a category with graded assignments, in tenths:
\* Math.round(((sum / n) * weight / 100) * 10), the products and quotients doubles
WeightedScore(sum, n, weight) ==
  IF <<sum, n, weight>> \in BelowTie
    THEN Round(sum * weight, 10 * n) - 1
    ELSE Round(sum * weight, 10 * n)

\* one element of the map of calculateGradeByCategory
CategoryGrade(category, cas) ==
  LET categoryAssignments == SelectSeq(cas, LAMBDA a : a.category = category.name)
      n == Len(categoryAssignments)
      sum == SumGrades(categoryAssignments)
  IN  IF n = 0
        THEN [name |-> category.name, weight |-> category.weight,
              average |-> 0, count |-> 0, weightedScore |-> 0]
        ELSE [name |-> category.name, weight |-> category.weight,
              average |-> Round(10 * sum, n), count |-> n,
              weightedScore |-> WeightedScore(sum, n, category.weight)]

\* calculateGradeByCategory(), for the course found and the assignments kept
CalculateGradeByCategory(cur, cas) ==
  IF cur = <<>> \/ "gradeCategories" \notin DOMAIN cur[1]
    THEN <<>>
    ELSE [i \in 1..Len(cur[1].gradeCategories) |->
            CategoryGrade(cur[1].gradeCategories[i], cas)]

\* categoryGrades.reduce((sum, cat) => sum + cat.weightedScore, 0), in tenths
RECURSIVE CurrentGrade(_)
CurrentGrade(cgs) ==
  IF cgs = <<>> THEN 0 ELSE Head(cgs).weightedScore + CurrentGrade(Tail(cgs))

\* a fault: every category's weight counted
AnyWeight(cat) == cat.weight

\* the weight a category adds to totalWeight
CountedWeight(cat) == IF cat.count > 0 THEN cat.weight ELSE 0

\* categoryGrades.reduce((sum, cat) => cat.count > 0 ? sum + cat.weight : sum, 0)
RECURSIVE TotalWeight(_)
TotalWeight(cgs) ==
  IF cgs = <<>> THEN 0 ELSE CountedWeight(Head(cgs)) + TotalWeight(Tail(cgs))

\* adjustedGrade as the fraction num / den: (currentGrade / totalWeight) * 100, or 0
AdjustedGrade(currentGrade, totalWeight) ==
  IF totalWeight > 0
    THEN [num |-> currentGrade * 100, den |-> totalWeight * 10]
    ELSE [num |-> 0, den |-> 1]

\* lines 63-102 of a render that reaches them
Computed(cs, as, sel) ==
  LET categoryGrades ==
        CalculateGradeByCategory(CurrentCourse(cs, sel), CourseAssignments(as, sel))
  IN  [categoryGrades |-> categoryGrades,
       currentGrade |-> CurrentGrade(categoryGrades),
       totalWeight |-> TotalWeight(categoryGrades),
       adjustedGrade |-> AdjustedGrade(CurrentGrade(categoryGrades),
                                       TotalWeight(categoryGrades))]

----------------------------------------------------------------------------
(* Grades *)

NoError == <<>>      \* useState(null) of error

Idle == [st |-> "idle", val |-> <<>>, msg |-> ""]
Waiting == [st |-> "pending", val |-> <<>>, msg |-> ""]
Fulfilled(v) == [st |-> "ok", val |-> v, msg |-> ""]
Rejected(m) == [st |-> "fail", val |-> <<>>, msg |-> m]

NotEnded == [how |-> "none"]

\* useState initial values
InitGrades ==
  /\ courses = <<>>
  /\ assignments = <<>>
  /\ loading = TRUE
  /\ error = NoError
  /\ selectedCourse = NoSelection
  /\ courseRead = Idle
  /\ assignRead = Idle
  /\ atStart = [courses |-> <<>>, assignments |-> <<>>, selectedCourse |-> NoSelection]
  /\ ended = NotEnded
  /\ grades = <<>>

\* a fault: Promise.allSettled in place of Promise.all
JoinedWhenSettled(cr, ar) ==
  IF cr.st \in {"ok", "fail"} /\ ar.st \in {"ok", "fail"} THEN "fulfilled" ELSE "pending"

\* Promise.all([courseRead, assignRead])
Joined(cr, ar) ==
  IF cr.st = "fail" \/ ar.st = "fail" THEN "rejected"
  ELSE IF cr.st = "ok" /\ ar.st = "ok" THEN "fulfilled"
  ELSE "pending"

\* err.message || "Failed to load grades"
Message(m) == IF m = "" THEN "Failed to load grades" ELSE m

\* loadData up to its await
LoadData ==
  /\ loading' = TRUE
  /\ error' = NoError
  /\ courseRead' = Waiting
  /\ assignRead' = Waiting
  /\ atStart' = [courses |-> courses, assignments |-> assignments,
                 selectedCourse |-> selectedCourse]
  /\ ended' = NotEnded
  /\ UNCHANGED <<courses, assignments, selectedCourse, grades>>
  /\ UNCHANGED storeVars

\* useEffect(() => { loadData(); }, [])
Mount ==
  /\ loading /\ courseRead.st = "idle" /\ assignRead.st = "idle"
  /\ LoadData

\* onRetry of the Error view
Retry ==
  /\ ~loading /\ error # NoError
  /\ LoadData

\* loadData from its await to its end, once a read has settled as cr, ar
Continue(cr, ar, failedMsg) ==
  IF ~loading \/ Joined(cr, ar) = "pending"
    THEN UNCHANGED <<courses, assignments, loading, error, selectedCourse, ended, grades>>
    ELSE IF Joined(cr, ar) = "fulfilled"
      THEN /\ courses' = cr.val
           /\ assignments' = ar.val
           /\ selectedCourse' =
                IF Len(cr.val) > 0 /\ atStart.selectedCourse = NoSelection
                  THEN cr.val[1].Id ELSE selectedCourse
           /\ loading' = FALSE
           /\ error' = error
           /\ ended' = [how |-> "ok"]
           /\ grades' = IF Len(cr.val) > 0
                          THEN <<Computed(courses', assignments', selectedCourse')>>
                          ELSE grades
      ELSE /\ error' = <<Message(failedMsg)>>
           /\ loading' = FALSE
           /\ ended' = [how |-> "failed"]
           /\ UNCHANGED <<courses, assignments, selectedCourse, grades>>

\* what courseService.getAll() can settle as: [...getStoredCourses()], or the
\* failure of JSON.parse
CourseOutcomes == { Fulfilled(GetStoredCourses) } \cup { Rejected("Unexpected token") }

AssignmentResults ==
  { <<>>,
    <<[courseId |-> 1, category |-> "Homework", completed |-> TRUE, grade |-> 1]>>,
    <<[courseId |-> 1, category |-> "Homework", completed |-> TRUE, grade |-> 1],
      [courseId |-> 2, category |-> "Quiz", completed |-> TRUE, grade |-> NULL]>> }
\* what assignmentService.getAll() can settle as
AssignmentOutcomes ==
  { Fulfilled(v) : v \in AssignmentResults } \cup { Rejected(""), Rejected("Network") }

\* courseService.getAll() settles
SettleCourses(outcome) ==
  /\ courseRead.st = "pending"
  /\ courseRead' = outcome
  /\ assignRead' = assignRead
  /\ Continue(outcome, assignRead, outcome.msg)
  /\ UNCHANGED atStart
  /\ UNCHANGED storeVars

\* assignmentService.getAll() settles
SettleAssignments(outcome) ==
  /\ assignRead.st = "pending"
  /\ assignRead' = outcome
  /\ courseRead' = courseRead
  /\ Continue(courseRead, outcome, outcome.msg)
  /\ UNCHANGED atStart
  /\ UNCHANGED storeVars

Shown == ~loading /\ error = NoError /\ Len(courses) > 0

\* onClick={() => setSelectedCourse(course.Id)}
SelectCourse(i) ==
  /\ Shown
  /\ i \in 1..Len(courses)
  /\ selectedCourse' = courses[i].Id
  /\ ended' = NotEnded
  /\ grades' = <<Computed(courses, assignments, selectedCourse')>>
  /\ UNCHANGED <<courses, assignments, loading, error, courseRead, assignRead, atStart>>
  /\ UNCHANGED storeVars

\* the component renders the grade view
Render ==
  /\ Shown
  /\ grades' = <<Computed(courses, assignments, selectedCourse)>>
  /\ UNCHANGED <<courses, assignments, loading, error, selectedCourse, courseRead,
                 assignRead, atStart, ended>>
  /\ UNCHANGED storeVars

Categories ==
  { [name |-> "Homework", weight |-> 15],
    [name |-> "Exams", weight |-> 52],
    [name |-> "Exams", weight |-> 0] }

Assignments ==
  { [courseId |-> 1, category |-> "Homework", completed |-> TRUE, grade |-> g] :
      g \in {16, 17} }
  \cup { [courseId |-> 1, category |-> "Exams", completed |-> TRUE, grade |-> g] :
           g \in {0, 1} }
  \cup { [courseId |-> 1, category |-> "Quiz", completed |-> TRUE, grade |-> 1],
         [courseId |-> 2, category |-> "Homework", completed |-> TRUE, grade |-> 1],
         [courseId |-> 1, category |-> "Homework", completed |-> FALSE, grade |-> 1],
         [courseId |-> 1, category |-> "Exams", completed |-> TRUE, grade |-> NULL] }

SeqsUpTo(S, n) == UNION { [1..k -> S] : k \in 0..n }

\* the page after a load: course 1 with its categories, course 2 without any
InitLoaded ==
  /\ \E cats \in SeqsUpTo(Categories, MaxCats) :
       courses = << [Id |-> 1, code |-> "a", gradeCategories |-> cats], Course2 >>
  /\ assignments \in SeqsUpTo(Assignments, MaxAsg)
  /\ loading = FALSE
  /\ error = NoError
  /\ selectedCourse = 1
  /\ courseRead = Fulfilled(courses)
  /\ assignRead = Fulfilled(assignments)
  /\ atStart = [courses |-> <<>>, assignments |-> <<>>, selectedCourse |-> NoSelection]
  /\ ended = NotEnded
  /\ grades = <<>>

----------------------------------------------------------------------------
(* Specifications *)

\* the store: calls made at any time, each running after its delay
Init == InitStore /\ InitGrades

\* the store untouched, holding no value
StoreAtRest == InitStore /\ seed = <<Course1, Course2>> /\ storage = <<>>

Next ==
  \/ \E call \in Calls : Issue(call)
  \/ Resume
  \/ ClearStorage

Spec == Init /\ [][Next]_vars

\* the store under a few calls, every delay ending
ConcCalls ==
  { c \in Calls :
      \/ c.op = "getAll"
      \/ c.op = "getById" /\ c.id = "1"
      \/ c.op = "create" /\ "Id" \notin DOMAIN c.data
      \/ c.op = "update" /\ c.id = "1" /\ "Id" \notin DOMAIN c.data
      \/ c.op = "delete" /\ c.id = "2" }

ConcNext ==
  \/ \E call \in ConcCalls : Issue(call)
  \/ Resume
  \/ ClearStorage

ConcSpec == Init /\ [][ConcNext]_vars /\ WF_vars(Resume)

\* the Grades page loading its data
LoadNext ==
  \/ Mount
  \/ Retry
  \/ \E o \in CourseOutcomes : SettleCourses(o)
  \/ \E o \in AssignmentOutcomes : SettleAssignments(o)
  \/ \E i \in 1..2 : SelectCourse(i)

\* the effect runs after the first render, and a delayed read always settles
LoadSpec ==
  /\ Init
  /\ [][LoadNext]_vars
  /\ WF_vars(Mount)
  /\ WF_vars(\E o \in CourseOutcomes : SettleCourses(o))
  /\ WF_vars(\E o \in AssignmentOutcomes : SettleAssignments(o))

\* the Grades page computing grades from loaded data
InitGradesLoaded == StoreAtRest /\ InitLoaded

GradesNext ==
  \/ \E i \in 1..2 : SelectCourse(i)
  \/ Render

GradesSpec == InitGradesLoaded /\ [][GradesNext]_vars

----------------------------------------------------------------------------
(* Properties *)

Stored == GetStoredCourses

\* the value read from a property: undefined when the record has no such property
Read(r, f) == IF f \in DOMAIN r THEN r[f] ELSE UNDEF

\* two records give the same value for property f
SameField(r1, r2, f) ==
  IF f = "code"
    THEN Read(r1, f) = Read(r2, f)
    ELSE /\ (f \in DOMAIN r1) = (f \in DOMAIN r2)
         /\ f \in DOMAIN r1 => r1[f] = r2[f]

SameRecord(r1, r2) == \A f \in Fields : SameField(r1, r2, f)

\* the Id is one more than the largest Id of the collection cs, 1 when cs is empty
NextIdOf(id, cs) ==
  /\ cs = <<>> => id = 1
  /\ cs # <<>> =>
       /\ \E i \in 1..Len(cs) : id = cs[i].Id + 1
       /\ \A i \in 1..Len(cs) : id > cs[i].Id

\* C1 as stated: in a run of creates, each create returns the record with Id one
\* more than the largest Id stored at the moment the call is made (1 when nothing
\* is stored), greater than every Id returned by the creates before it.
CreateAssignsNextIdAtCall ==
  (last.op = "create" /\ last.co) =>
    /\ NextIdOf(last.ret[1].Id, last.snap)
    /\ last.ret[1].Id > last.earlier

\* C1: create returns the record with Id one more than the largest Id of the
\* collection it reads when its delay ends (1 when that collection is empty), and
\* that Id is greater than every Id returned by the creates before it in a run of
\* creates.
CreateAssignsNextId ==
  last.op = "create" =>
    /\ NextIdOf(last.ret[1].Id, last.pre)
    /\ last.ret[1].Id > last.earlier

\* a create made while an earlier create was in its delay has run after it
SecondCreateOverlapped ==
  /\ last.op = "create"
  /\ last.co
  /\ last.earlier > 0
  /\ Len(last.pre) = Len(last.snap) + 1

\* C2: in a run of creates and deletes, the Id a create assigns was never the Id
\* of an earlier record, deleted or not.
IdNeverReused ==
  (last.op = "create" /\ last.cd) => last.ret[1].Id \notin last.before

\* C3: no two stored records have the same Id.
IdsUnique ==
  \A i, j \in 1..Len(Stored) : i # j => Stored[i].Id # Stored[j].Id

\* two creates overlapped in their delays and both have completed: the second
\* was made before the first ran, and ran after it
TwoOverlappingWritesDone ==
  /\ pending = <<>>
  /\ overlap
  /\ ncalls = 2
  /\ last.op = "create"
  /\ Len(last.pre) = Len(last.snap) + 1
  /\ Len(Stored) = Len(last.pre) + 1

\* overlapping calls have completed and the stored collection lacks what one of
\* them did
LostUpdate ==
  /\ pending = <<>>
  /\ overlap
  /\ Stored # serial

\* C4 as stated: when two mutating calls overlap in their delays and both
\* complete, a state is reached where the stored collection holds the effect of
\* the last writer only.
SomeUpdateIsLost == (<>TwoOverlappingWritesDone) => (<>LostUpdate)

\* C4: a call reads and writes the slot in one step after its delay, so the stored
\* collection is always what the completed calls give when run one after another
\* in the order their delays end: overlapping calls lose no update.
NoLostUpdate == Stored = serial

\* C5: update overwrites exactly the properties of partialData in the first record
\* with that Id and leaves every other property and every other record as it
\* was; with no such record it returns null and the stored collection is as before.
UpdateMergesOneRecord ==
  last.op = "update" =>
    LET pre == last.pre
        n == ParseInt(last.id)
        hits == { i \in 1..Len(pre) : n # NaN /\ pre[i].Id = n }
    IN  IF hits = {}
          THEN /\ last.ret = <<>>
               /\ Stored = pre
               /\ last.wrote = FALSE
          ELSE LET k == CHOOSE i \in hits : \A j \in hits : i <= j
               IN  /\ Len(Stored) = Len(pre)
                   /\ \A i \in 1..Len(pre) : i # k => SameRecord(Stored[i], pre[i])
                   /\ \A f \in Fields :
                        IF f \in DOMAIN last.data
                          THEN /\ Read(Stored[k], f) = last.data[f]
                               /\ Read(last.ret[1], f) = last.data[f]
                          ELSE /\ SameField(Stored[k], pre[k], f)
                               /\ SameField(last.ret[1], pre[k], f)

UpdatedOneOfTwo ==
  /\ last.op = "update"
  /\ Len(last.pre) >= 2
  /\ last.ret # <<>>
  /\ "gradeCategories" \notin DOMAIN last.data

\* C6: getById of the Id a create has just returned gives the created course: the
\* properties of the input, the assigned Id, and gradeCategories empty when the
\* input had none.
CreateThenGetById ==
  (last.op = "getById" /\ fresh # <<>> /\ ParseInt(last.id) = fresh[1].id) =>
    LET c == fresh[1].input IN
    /\ last.ret # <<>>
    /\ last.ret[1].Id = fresh[1].id
    /\ Read(last.ret[1], "code") = Read(c, "code")
    /\ "gradeCategories" \in DOMAIN last.ret[1]
    /\ last.ret[1].gradeCategories =
         IF "gradeCategories" \in DOMAIN c THEN c.gradeCategories ELSE <<>>
    /\ DOMAIN last.ret[1] \subseteq Fields

GotCreatedWithoutCategories ==
  /\ last.op = "getById"
  /\ fresh # <<>>
  /\ ParseInt(last.id) = fresh[1].id
  /\ "gradeCategories" \notin DOMAIN fresh[1].input

\* the graded assignments of the selected course in the category of that name
Matching(name) ==
  SelectSeq(assignments,
            LAMBDA a : /\ a.courseId = selectedCourse
                       /\ a.completed
                       /\ a.grade # NULL
                       /\ a.category = name)

RECURSIVE Total(_, _)
Total(f, S) ==
  IF S = {} THEN 0
  ELSE LET x == CHOOSE y \in S : TRUE IN f[x] + Total(f, S \ {x})

GradeSum(as) == Total([i \in 1..Len(as) |-> as[i].grade], 1..Len(as))

\* the categories of the selected course
SelectedCategories ==
  LET hits == { i \in 1..Len(courses) : courses[i].Id = selectedCourse }
  IN  IF hits = {} THEN <<>>
      ELSE LET c == courses[CHOOSE i \in hits : \A j \in hits : i <= j]
           IN  IF "gradeCategories" \in DOMAIN c THEN c.gradeCategories ELSE <<>>

\* C7 as stated: the weighted score is the one-decimal average times the weight
\* over 100, rounded to one decimal.
WeightedScoreFromRoundedAverage ==
  grades # <<>> =>
    \A i \in 1..Len(grades[1].categoryGrades) :
      LET cg == grades[1].categoryGrades[i] IN
      cg.count > 0 =>
        \* tenths: round(average/10 * weight/100 * 10)
        /\ 200 * cg.weightedScore <= 2 * cg.average * cg.weight + 100
        /\ 2 * cg.average * cg.weight + 100 < 200 * (cg.weightedScore + 1)

\* C7: for a category with n > 0 graded assignments summing to s, average is s/n
\* rounded half up to one decimal, and weightedScore is a one-decimal number
\* nearest to (s/n) * weight / 100, the mean not rounded: at most 0.05 from it,
\* either neighbour when it lies halfway between two.
WeightedScoreFromMean ==
  grades # <<>> =>
    /\ Len(grades[1].categoryGrades) = Len(SelectedCategories)
    /\ \A i \in 1..Len(SelectedCategories) :
         LET cg == grades[1].categoryGrades[i]
             cat == SelectedCategories[i]
             n == Len(Matching(cat.name))
             s == GradeSum(Matching(cat.name))
         IN  /\ cg.name = cat.name /\ cg.weight = cat.weight /\ cg.count = n
             /\ n = 0 => cg.average = 0 /\ cg.weightedScore = 0
             /\ n > 0 =>
                  /\ 2 * n * cg.average <= 20 * s + n
                  /\ 20 * s + n < 2 * n * (cg.average + 1)
                  /\ 20 * n * cg.weightedScore <= 2 * s * cat.weight + 10 * n
                  /\ 2 * s * cat.weight + 10 * n <= 20 * n * (cg.weightedScore + 1)

\* 17, 16 and 16 at weight 15: the mean times 0.15 is the tie 2.45, and the
\* weighted score is 2.4
TieRoundsDown ==
  /\ grades # <<>>
  /\ \E i \in 1..Len(grades[1].categoryGrades) :
       LET cg == grades[1].categoryGrades[i] IN
       cg.count = 3 /\ cg.average = 163 /\ cg.weight = 15 /\ cg.weightedScore = 24

\* 1, 1 and 0 at weight 52: average 0.7, weightedScore 0.3, not round1(0.364)
RoundingsDiffer ==
  /\ grades # <<>>
  /\ \E i \in 1..Len(grades[1].categoryGrades) :
       LET cg == grades[1].categoryGrades[i] IN
       cg.count = 3 /\ cg.average = 7 /\ cg.weight = 52 /\ cg.weightedScore = 3

\* C8: adjustedGrade is the sum of the weighted scores over the sum of the weights
\* of the categories with graded assignments, times 100, and 0 when that weight
\* sum is not positive; assignments of a category the course does not define
\* change nothing.
AdjustedGradeFormula ==
  grades # <<>> =>
    LET g == grades[1]
        cgs == g.categoryGrades
        cats == SelectedCategories
        idx == 1..Len(cats)
        scores == Total([i \in idx |-> cgs[i].weightedScore], idx)
        weights == Total([i \in idx |->
                            IF Len(Matching(cats[i].name)) > 0 THEN cats[i].weight ELSE 0],
                         idx)
        defined == SelectSeq(assignments,
                             LAMBDA a : \E i \in idx : cats[i].name = a.category)
    IN  /\ Len(cgs) = Len(cats)
        /\ g.adjustedGrade.den > 0
        /\ IF weights > 0
             THEN g.adjustedGrade.num * weights * 10 = scores * 100 * g.adjustedGrade.den
             ELSE g.adjustedGrade.num = 0
        /\ (\A i \in idx : Len(Matching(cats[i].name)) = 0) => g.adjustedGrade.num = 0
        /\ g = Computed(courses, defined, selectedCourse)

SomeCategoryEmptyAndOneUnmatched ==
  /\ grades # <<>>
  /\ \E i, j \in 1..Len(grades[1].categoryGrades) :
       /\ grades[1].categoryGrades[i].count = 0
       /\ grades[1].categoryGrades[i].weight > 0
       /\ grades[1].categoryGrades[j].count > 0
       /\ grades[1].categoryGrades[j].weightedScore > 0
  /\ \E k \in 1..Len(assignments) :
       /\ assignments[k].category = "Quiz"
       /\ assignments[k].courseId = selectedCourse

AnyReadFailed == courseRead.st = "fail" \/ assignRead.st = "fail"

LoadOutcome ==
  /\ (courseRead.st = "idle") = (assignRead.st = "idle")
  /\ (loading /\ courseRead.st # "idle") =>
       (courseRead.st = "pending" \/ assignRead.st = "pending")
  /\ ~loading =>
       /\ AnyReadFailed = (error # NoError)
       /\ ended.how # "none" => ended.how = (IF AnyReadFailed THEN "failed" ELSE "ok")
  /\ ended.how = "failed" =>
       /\ courses = atStart.courses
       /\ assignments = atStart.assignments
       /\ selectedCourse = atStart.selectedCourse
  /\ ended.how = "ok" =>
       /\ courses = courseRead.val
       /\ assignments = assignRead.val
       /\ (Len(courses) > 0 /\ atStart.selectedCourse = NoSelection) =>
            selectedCourse = courses[1].Id

\* C9: loadData starts both reads at once and leaves the loading state; if a read
\* fails it ends with the error set and courses and assignments as they were, and
\* if both succeed it ends with no error, both results applied and, nothing having
\* been selected, the first course selected.
LoadDataEnds == []LoadOutcome /\ (loading ~> ~loading)

FailedWithCoursesRead ==
  /\ ended.how = "failed"
  /\ courseRead.st = "ok"
  /\ Len(courseRead.val) > 0
  /\ courses = <<>>
  /\ error = <<"Failed to load grades">>

\* C10: the seed array is never changed, so whenever the slot holds no value the
\* stored collection is the seed as bundled.
SeedIsReadOnly ==
  /\ seed = seed0
  /\ storage = <<>> => Stored = seed0

====
